---------------------------- MODULE Spec2Model ----------------------------
(***************************************************************************)
(* A model of the tool-calling machinery of hermes-cli:                    *)
(*   - ToolRegistry  (src/src/hermes_cli/tools.py)                         *)
(*   - ToolExecutor  (src/src/hermes_cli/tools.py)                         *)
(*   - the two tool-calling loops and the CLI code that starts them        *)
(*     (src/src/hermes_cli/main.py)                                        *)
(*                                                                         *)
(* Python values are modelled as follows.                                  *)
(*   dict            a sequence of [key, value] records in insertion order *)
(*   str (JSON text) a record [kind, val]: kind = "json" for a text that   *)
(*                   json.loads accepts, val being the value it denotes    *)
(*   callable        a record carrying the attributes the @tool decorator  *)
(*                   attaches                                              *)
(*   tool_spec       the sequence of the pieces of the string between its  *)
(*                   commas (what str.split(",") returns)                  *)
(***************************************************************************)
EXTENDS Integers, Sequences, FiniteSets, TLC

VARIABLES
    pc,               \* position of the running command
    variant,          \* "single" (cli) or "chat" (chat command)
    broken_modules,   \* built-in tool modules whose import fails in this process
    tool_spec,        \* --use-tools value, split at its commas
    max_calls,        \* --max-tool-calls / tools_config['max_calls']
    schema_dict,      \* TRUE when a JSON schema is configured
    stream,           \* --stream/--no-stream: "True", "False", or "None" when not given
    first_run,        \* what an earlier run of the single-turn command did, or NoRun
    tools,            \* ToolRegistry.tools
    selected_tools,   \* result of select_tools
    select_error,     \* the ValueError select_tools raised, or NoError
    tool_schemas,     \* result of the latest get_tool_schemas
    schemas_returned, \* every result get_tool_schemas returned, in call order
    tool_calls,       \* batch handed to execute_tool_calls
    tool_results,     \* what execute_tool_calls returned
    exec_raised,      \* the exception that left execute_tool_calls, or "no"
    invoked,          \* handler calls so far (line 207), in call order
    iteration,        \* number of completed loop iterations
    current_messages, \* the loop's running message list
    conversation,     \* the caller's list: conversation_data["messages"] (chat), messages (cli)
    saved,            \* the messages last written by save_conversation
    sent,             \* the arguments of every client.chat_completion call so far
    responses,        \* what the Transport answered so far
    batches,          \* number of execute_tool_calls calls made by the loop
    stdout,           \* what was echoed to standard output
    stderr,           \* what was echoed to standard error
    exit_code,        \* process exit status, or NotExited
    files,            \* the conversations directory: file stem -> what the file holds
    active_session_file, \* the .active_session file: NoFile, or the text it holds
    returned,         \* the latest registry listing or store operation and what it returned or raised
    ops               \* number of store operations done

vars == << pc, variant, broken_modules, tool_spec, max_calls, schema_dict, stream, first_run,
           tools, selected_tools, select_error, tool_schemas, schemas_returned,
           tool_calls, tool_results, exec_raised, invoked, iteration, current_messages,
           conversation, saved, sent, responses, batches, stdout, stderr,
           exit_code, files, active_session_file, returned, ops >>

---------------------------------------------------------------------------
(* Bounds of the model *)

\* longest comma-separated selection spec tried against select_tools
MaxSpecLen == 2
\* largest batch handed to execute_tool_calls on its own
MaxExecBatch == 2
\* largest --max-tool-calls value tried
MaxCalls == 2
\* largest tool-call batch in one Transport response
MaxBatch == 2
\* number of repeated get_tool_schemas calls tried
MaxSchemaCalls == 2
\* store operations that touch the conversations directory in one run
MaxOps == 3

---------------------------------------------------------------------------
(* Generic helpers *)

NoError == [raised |-> FALSE]
NoRun == [ran |-> FALSE]
NoFile == [exists |-> FALSE]
NoReturn == [op |-> "none"]
NotExited == -1

RECURSIVE SeqOfLen(_, _)
SeqOfLen(S, n) ==
    IF n = 0 THEN { <<>> }
    ELSE { Append(s, x) : s \in SeqOfLen(S, n - 1), x \in S }

SeqsUpTo(S, n) == UNION { SeqOfLen(S, k) : k \in 0..n }

\* Python dict, insertion ordered
Keys(d) == [i \in 1..Len(d) |-> d[i].key]
KeySet(d) == { d[i].key : i \in 1..Len(d) }
Values(d) == [i \in 1..Len(d) |-> d[i].value]
Get(d, k) == (CHOOSE i \in 1..Len(d) : d[i].key = k)
GetValue(d, k) == d[Get(d, k)].value
\* d[k] = v: an existing key keeps its position
Put(d, k, v) ==
    IF k \in KeySet(d)
    THEN [i \in 1..Len(d) |-> IF d[i].key = k THEN [key |-> k, value |-> v] ELSE d[i]]
    ELSE Append(d, [key |-> k, value |-> v])

---------------------------------------------------------------------------
(* tools.py: the @tool decorator and the built-in tools *)

BuiltinModules == {"math", "shell", "file", "search"}

\* registration order of _load_builtin_tools
BuiltinNames ==
    << "calculate", "execute_shell_command", "read_file", "write_file", "web_search" >>

ModuleOf(name) ==
    CASE name = "calculate" -> "math"
      [] name = "execute_shell_command" -> "shell"
      [] name \in {"read_file", "write_file"} -> "file"
      [] name = "web_search" -> "search"

Description(name) ==
    CASE name = "calculate" -> "Perform mathematical calculations."
      [] name = "execute_shell_command" -> "Execute a shell command and return its output."
      [] name = "read_file" -> "Read the contents of a file."
      [] name = "write_file" -> "Write content to a file."
      [] name = "web_search" -> "Search the web using Google search."

Required(name) ==
    CASE name = "calculate" -> << "expression" >>
      [] name = "execute_shell_command" -> << "command" >>
      [] name = "read_file" -> << "file_path" >>
      [] name = "write_file" -> << "file_path", "content" >>
      [] name = "web_search" -> << "query" >>

\* what the decorator attaches to the function
tool(name, description, parameters, builtin) ==
    [ tool_name   |-> name,
      tool_schema |-> [ type |-> "function",
                        function |-> [ name |-> name,
                                       description |-> description,
                                       parameters |-> parameters ] ],
      builtin     |-> builtin ]

BuiltinTool(name) ==
    tool(name, Description(name), [type |-> "object", required |-> Required(name)], TRUE)

\* sorted() over tool names: the rank of each name in lexicographic order
Rank(name) ==
    CASE name = "calculate" -> 1
      [] name = "execute_shell_command" -> 2
      [] name = "my_tool" -> 3
      [] name = "read_file" -> 4
      [] name = "web_search" -> 5
      [] name = "write_file" -> 6
      [] name = "zip_files" -> 7

RECURSIVE SortedNames(_)
SortedNames(S) ==
    IF S = {} THEN <<>>
    ELSE LET m == CHOOSE x \in S : \A y \in S : Rank(x) <= Rank(y)
         IN  << m >> \o SortedNames(S \ {m})

---------------------------------------------------------------------------
(* tools.py: ToolRegistry *)

\* ToolRegistry.__init__ / _load_builtin_tools: one import statement brings
\* in all five functions, so an ImportError in any module leaves the
\* registry empty (and prints a warning)
load_builtin_tools(broken) ==
    IF broken = {}
    THEN [i \in 1..Len(BuiltinNames) |->
            [key |-> BuiltinNames[i], value |-> BuiltinTool(BuiltinNames[i])]]
    ELSE <<>>

\* builtin_tools/__init__.py lines 3-6: the order in which the package
\* imports its modules
ImportOrder == << "math", "shell", "file", "search" >>

\* the module was imported: neither it nor a module imported before it failed
Imported(module, broken) ==
    \E i \in 1..Len(ImportOrder) :
        /\ ImportOrder[i] = module
        /\ \A j \in 1..i : ImportOrder[j] \notin broken

\* tools.py lines 73-74: what _load_builtin_tools prints to stderr
load_warnings(broken) ==
    IF broken = {} THEN <<>> ELSE << [msg |-> "Warning: Failed to load built-in tools"] >>

\* list_tools filing every tool under "builtin"
RECURSIVE list_from_all_builtin(_, _, _, _)
list_from_all_builtin(registry, names, i, result) ==
    IF i > Len(names) THEN result
    ELSE LET tool_func == GetValue(registry, names[i])
             desc == tool_func.tool_schema.function.description
         IN  list_from_all_builtin(registry, names, i + 1,
                                   [result EXCEPT !["builtin"] = Put(@, names[i], desc)])

\* tools.py lines 125-128: the loop of list_tools from position i on
RECURSIVE list_from(_, _, _, _)
list_from(registry, names, i, result) ==
    IF i > Len(names) THEN result
    ELSE LET tool_func == GetValue(registry, names[i])
             desc == tool_func.tool_schema.function.description
             source == IF tool_func.builtin THEN "builtin" ELSE "user"
         IN  list_from(registry, names, i + 1,
                       [result EXCEPT ![source] = Put(@, names[i], desc)])

\* ToolRegistry.list_tools
list_tools(registry) ==
    list_from(registry, SortedNames(KeySet(registry)), 1, [builtin |-> <<>>, user |-> <<>>])

\* str.strip() on the pieces of a selection spec
strip(piece) ==
    CASE piece = " calculate " -> "calculate"
      [] piece = "read_file " -> "read_file"
      [] piece = " " -> ""
      [] OTHER -> piece

\* the ValueError of line 97-101: names the unknown tool, lists sorted(self.tools)
UnknownTool(registry, name) ==
    [ raised    |-> TRUE,
      type      |-> "ValueError",
      unknown   |-> name,
      available |-> SortedNames(KeySet(registry)) ]

Returned(value) == [raised |-> FALSE, value |-> value]

\* select_names with an unknown name skipped instead of reported
RECURSIVE select_names_skipping(_, _, _, _)
select_names_skipping(registry, tool_names, i, selected) ==
    IF i > Len(tool_names)
    THEN Returned(selected)
    ELSE IF tool_names[i] \notin KeySet(registry)
         THEN select_names_skipping(registry, tool_names, i + 1, selected)
         ELSE select_names_skipping(registry, tool_names, i + 1,
                           Put(selected, tool_names[i], GetValue(registry, tool_names[i])))

\* the for loop of select_tools over tool_names[i..], with `selected` so far
RECURSIVE select_names(_, _, _, _)
select_names(registry, tool_names, i, selected) ==
    IF i > Len(tool_names)
    THEN Returned(selected)
    ELSE IF tool_names[i] \notin KeySet(registry)
         THEN UnknownTool(registry, tool_names[i])
         ELSE select_names(registry, tool_names, i + 1,
                           Put(selected, tool_names[i], GetValue(registry, tool_names[i])))

\* select_all with the update left out
select_all_forgotten(registry) == <<>>

\* selected.update(self.tools)
select_all(registry) == registry

select_tools(registry, spec) ==
    IF spec = << "all" >>
    THEN Returned(select_all(registry))
    ELSE select_names(registry, [i \in 1..Len(spec) |-> strip(spec[i])], 1, <<>>)

\* get_tool_schemas listing the schemas in sorted name order
get_tool_schemas_sorted(selected) ==
    LET names == SortedNames(KeySet(selected))
    IN  [i \in 1..Len(names) |-> GetValue(selected, names[i]).tool_schema]

get_tool_schemas(selected) ==
    [i \in 1..Len(selected) |-> selected[i].value.tool_schema]

---------------------------------------------------------------------------
(* JSON texts and values *)

\* JSON values: objects carry a record, everything else is opaque
Obj(fields) == [t |-> "object", o |-> fields]
NonObj(what) == [t |-> what]
HasKey(v, k) == v.t = "object" /\ k \in DOMAIN v.o

\* a str that json.loads accepts, denoting v, laid out as json.dumps(v) is
JsonText(v) == [kind |-> "json", val |-> v, layout |-> "compact"]
\* the same value laid out as json.dumps(v, indent=2) is
IndentedText(v) == [kind |-> "json", val |-> v, layout |-> "indent=2"]
\* the same value laid out in some other way (whitespace, key order)
FreeText(v) == [kind |-> "json", val |-> v, layout |-> "free"]
\* the empty str
EmptyText == [kind |-> "text", val |-> ""]
\* a str that json.loads rejects
PlainText(s) == [kind |-> "text", val |-> s]
\* a value that is not a str at all (null, or an object where a str is expected)
NonStr == [kind |-> "nonstr"]
NoContent == [kind |-> "none"]

\* json.dumps: the text denoting v
json_dumps(v) == JsonText(v)

\* json.loads: the value, or the exception raised
json_loads(text) ==
    CASE text.kind = "json" -> [raised |-> "no", val |-> text.val]
      [] text.kind = "text" -> [raised |-> "JSONDecodeError"]
      [] OTHER -> [raised |-> "TypeError"]

---------------------------------------------------------------------------
(* tools.py: ToolExecutor *)

\* the keyword parameters each built-in handler accepts
Accepted(name) ==
    CASE name = "web_search" -> {"query", "num_results"}
      [] OTHER -> { Required(name)[i] : i \in 1..Len(Required(name)) }

\* tool_func(**args) binds: args is a mapping, every required parameter is
\* given and no unexpected keyword is passed
Binds(func, args) ==
    /\ args.t = "object"
    /\ \A i \in 1..Len(func.tool_schema.function.parameters.required) :
          func.tool_schema.function.parameters.required[i] \in DOMAIN args.o
    /\ DOMAIN args.o \subseteq Accepted(func.tool_name)

\* what the body of a handler may do once it runs: return a dict, return a
\* dict that reports an error (the built-ins catch their own failures),
\* return a str, or fail with an exception
HandlerOutcomes == {"returns", "returns_error", "returns_str", "raises", "raises_TypeError"}

ToolMessage(tool_call_id, func_name, content) ==
    [ role |-> "tool", tool_call_id |-> tool_call_id, name |-> func_name,
      content |-> content ]

ErrorContent(message) == json_dumps(Obj([error |-> message]))

\* the lookup made in the full registry instead of the selection
LookupToolInRegistry(selected, func_name) ==
    IF func_name \in KeySet(load_builtin_tools({}))
    THEN [found |-> TRUE, func |-> GetValue(load_builtin_tools({}), func_name)]
    ELSE [found |-> FALSE]

\* the lookup of lines 202-206
LookupTool(selected, func_name) ==
    IF func_name \in KeySet(selected)
    THEN [found |-> TRUE, func |-> GetValue(selected, func_name)]
    ELSE [found |-> FALSE]

\* the value a handler returns, and line 210 applied to it
HandlerResult(outcome) ==
    IF outcome = "returns_error" THEN Obj([error |-> "reported by the handler"])
    ELSE IF outcome = "returns_str" THEN NonObj("str")
    ELSE Obj([result |-> "value"])

FormatResult(result) ==
    IF result.t = "str" THEN PlainText("textual result") ELSE json_dumps(result)

\* the try block of execute_tool_call (lines 198-210) for request number
\* `pos` of its batch: the exception that ends it ("none" when it completes),
\* the content it computed and the handler call it made. `outcome` is what
\* the handler's body does if it gets to run.
TryBlock(tool_call, selected, outcome, pos) ==
    LET func_name == tool_call.function.name
        parsed    == json_loads(tool_call.function.arguments)
        looked    == LookupTool(selected, func_name)
        Call(ran) == << [ pos |-> pos, id |-> tool_call.id, name |-> func_name,
                          func |-> looked.func.tool_name, ran |-> ran,
                          outcome |-> IF ran THEN outcome ELSE "not run" ] >>
    IN  CASE parsed.raised # "no" ->
               [exc |-> parsed.raised, calls |-> <<>>]
          [] parsed.raised = "no" /\ ~looked.found ->
               [exc |-> "ValueError", calls |-> <<>>]
          [] parsed.raised = "no" /\ looked.found /\ ~Binds(looked.func, parsed.val) ->
               [exc |-> "TypeError", calls |-> Call(FALSE)]
          [] OTHER ->
               CASE outcome = "raises" -> [exc |-> "Exception", calls |-> Call(TRUE)]
                 [] outcome = "raises_TypeError" -> [exc |-> "TypeError", calls |-> Call(TRUE)]
                 [] OTHER -> [ exc |-> "none", calls |-> Call(TRUE),
                               content |-> FormatResult(HandlerResult(outcome)) ]

\* ExceptClauses without the final `except Exception`
ExceptClausesNoCatchAll(exc) ==
    CASE exc = "JSONDecodeError" ->
             [raised |-> "no", content |-> ErrorContent("Invalid arguments JSON")]
      [] exc = "TypeError" ->
             [raised |-> "no", content |-> ErrorContent("Invalid arguments for tool")]
      [] OTHER -> [raised |-> exc]

\* the except clauses of lines 212-217, tried in order: the content each
\* produces, or the exception going on when none matches
ExceptClauses(exc) ==
    CASE exc = "JSONDecodeError" ->
             [raised |-> "no", content |-> ErrorContent("Invalid arguments JSON")]
      [] exc = "TypeError" ->
             [raised |-> "no", content |-> ErrorContent("Invalid arguments for tool")]
      [] exc \in {"ValueError", "Exception"} ->
             [raised |-> "no", content |-> ErrorContent("Tool execution failed")]
      [] OTHER -> [raised |-> exc]

\* execute_tool_call: what leaves it (a message, or an exception), and the
\* handler call made
execute_tool_call(tool_call, selected, outcome, pos) ==
    LET try    == TryBlock(tool_call, selected, outcome, pos)
        caught == IF try.exc = "none"
                  THEN [raised |-> "no", content |-> try.content]
                  ELSE ExceptClauses(try.exc)
    IN  IF caught.raised = "no"
        THEN [ raised  |-> "no", calls |-> try.calls,
               message |-> ToolMessage(tool_call.id, tool_call.function.name,
                                       caught.content) ]
        ELSE [ raised |-> caught.raised, calls |-> try.calls ]

\* execute_from collecting the results most recent first
RECURSIVE execute_from_reversed(_, _, _, _, _, _)
execute_from_reversed(batch, selected, outcomes, i, done, calls) ==
    IF i > Len(batch)
    THEN [raised |-> "no", messages |-> done, calls |-> calls]
    ELSE LET one == execute_tool_call(batch[i], selected, outcomes[i], i)
         IN  IF one.raised # "no"
             THEN [raised |-> one.raised, messages |-> <<>>, calls |-> calls \o one.calls]
             ELSE execute_from_reversed(batch, selected, outcomes, i + 1,
                               << one.message >> \o done, calls \o one.calls)

\* execute_tool_calls: the list comprehension over the batch, from request i
\* on, with the results `done` and handler calls `calls` so far; an exception
\* leaving one call ends the comprehension and no list is returned
RECURSIVE execute_from(_, _, _, _, _, _)
execute_from(batch, selected, outcomes, i, done, calls) ==
    IF i > Len(batch)
    THEN [raised |-> "no", messages |-> done, calls |-> calls]
    ELSE LET one == execute_tool_call(batch[i], selected, outcomes[i], i)
         IN  IF one.raised # "no"
             THEN [raised |-> one.raised, messages |-> <<>>, calls |-> calls \o one.calls]
             ELSE execute_from(batch, selected, outcomes, i + 1,
                               Append(done, one.message), calls \o one.calls)

execute_tool_calls(batch, selected, outcomes) ==
    execute_from(batch, selected, outcomes, 1, <<>>, <<>>)

\* whether the handler body of a request would get to run
Runs(tool_call, selected) ==
    /\ json_loads(tool_call.function.arguments).raised = "no"
    /\ LookupTool(selected, tool_call.function.name).found
    /\ Binds(LookupTool(selected, tool_call.function.name).func,
             json_loads(tool_call.function.arguments).val)

\* the behaviours of the environment for a batch: one handler outcome for
\* each request whose handler runs
RECURSIVE OutcomeChoices(_, _, _)
OutcomeChoices(batch, selected, outcomes) ==
    IF batch = <<>> THEN { <<>> }
    ELSE { << o >> \o rest :
             o \in (IF Runs(Head(batch), selected) THEN outcomes ELSE {"not run"}),
             rest \in OutcomeChoices(Tail(batch), selected, outcomes) }

---------------------------------------------------------------------------
(* Inputs *)

\* import failures tried: none, or the module that needs the requests package
BrokenChoices == { {}, {"search"} }

\* pieces of a selection spec
RawPieces == {"calculate", " calculate ", "read_file ", "write_file", "frobnicate", "", "all"}

\* the strings handed to select_tools: a str splits into at least one piece
RegistrySpecs == SeqsUpTo(RawPieces, MaxSpecLen) \ { <<>> }

\* arguments fields of tool-call requests
ValidCalcArgs == JsonText(Obj([expression |-> "2 + 2"]))
ValidWriteArgs == JsonText(Obj([file_path |-> "/tmp/x", content |-> "text"]))
WrongKeyArgs == JsonText(Obj([expr |-> "2 + 2"]))
NotMappingArgs == JsonText(NonObj("array"))
GarbageArgs == PlainText("invalid json")

ToolCall(id, name, arguments) ==
    [ id |-> id, type |-> "function",
      function |-> [name |-> name, arguments |-> arguments] ]

ExecRequests ==
    { ToolCall(id, name, arguments) :
        id \in {"call_1", "call_2"},
        name \in {"calculate", "write_file", "frobnicate"},
        arguments \in {ValidCalcArgs, WrongKeyArgs, NotMappingArgs, GarbageArgs, NonStr} }

\* the selections an executor is handed: what select_tools returns for these
ExecSpecs == { << "calculate" >>, << "all" >> }

---------------------------------------------------------------------------
(* The registry on its own: select_tools and get_tool_schemas *)

\* values of the variables an operation does not use
NoLoop ==
    /\ variant = "none"
    /\ max_calls = 0
    /\ schema_dict = FALSE
    /\ stream = "None"
    /\ first_run = NoRun
    /\ iteration = 0
    /\ current_messages = <<>>
    /\ conversation = <<>>
    /\ saved = <<>>
    /\ sent = <<>>
    /\ responses = <<>>
    /\ batches = 0
    /\ stdout = <<>>
    /\ stderr = <<>>
    /\ exit_code = NotExited

NoExec ==
    /\ tool_calls = <<>>
    /\ tool_results = <<>>
    /\ exec_raised = "no"
    /\ invoked = <<>>

loop_vars == << variant, max_calls, schema_dict, stream, first_run, iteration, current_messages,
                conversation, saved, sent, responses, batches, stdout, stderr,
                exit_code >>
exec_vars == << tool_calls, tool_results, exec_raised, invoked >>
registry_vars == << broken_modules, tools, tool_spec, selected_tools, select_error,
                    tool_schemas, schemas_returned >>
store_vars == << files, active_session_file, returned, ops >>

\* no conversation store in use and nothing listed
NoStore ==
    /\ files = <<>>
    /\ active_session_file = NoFile
    /\ returned = NoReturn
    /\ ops = 0

\* after ToolRegistry(): the built-ins are loaded
InitRegistry ==
    /\ pc = "registry"
    /\ broken_modules \in BrokenChoices
    /\ tools = load_builtin_tools(broken_modules)
    /\ tool_spec \in RegistrySpecs
    /\ selected_tools = <<>>
    /\ select_error = NoError
    /\ tool_schemas = <<>>
    /\ schemas_returned = <<>>
    /\ NoExec
    /\ NoLoop
    /\ NoStore

\* registry.select_tools(tool_spec)
SelectTools ==
    /\ pc = "registry"
    /\ LET r == select_tools(tools, tool_spec)
       IN  IF r.raised
           THEN /\ select_error' = r
                /\ pc' = "select_failed"
                /\ UNCHANGED selected_tools
           ELSE /\ selected_tools' = r.value
                /\ pc' = "selected"
                /\ UNCHANGED select_error
    /\ UNCHANGED << broken_modules, tools, tool_spec, tool_schemas, schemas_returned >>
    /\ UNCHANGED << exec_vars, loop_vars >>
    /\ UNCHANGED store_vars

\* registry.get_tool_schemas(selected_tools), any number of times
GetToolSchemas ==
    /\ pc = "selected"
    /\ Len(schemas_returned) < MaxSchemaCalls
    /\ tool_schemas' = get_tool_schemas(selected_tools)
    /\ schemas_returned' = Append(schemas_returned, tool_schemas')
    /\ UNCHANGED << pc, broken_modules, tools, tool_spec, selected_tools, select_error >>
    /\ UNCHANGED << exec_vars, loop_vars >>
    /\ UNCHANGED store_vars

NextRegistry == SelectTools \/ GetToolSchemas

SpecRegistry == InitRegistry /\ [][NextRegistry]_vars

---------------------------------------------------------------------------
(* The registry listed: list_tools on a registry that also holds functions *)
(* a caller decorated with @tool and put into registry.tools             *)

\* functions decorated without builtin=True (the decorator's default); the
\* second calculate takes the place of the built-in one, and my_tool comes
\* in two versions
UserTools ==
    { tool("my_tool", "Does what I need.", [type |-> "object", required |-> <<>>], FALSE),
      tool("my_tool", "Does it better.", [type |-> "object", required |-> <<>>], FALSE),
      tool("zip_files", "Zip some files.", [type |-> "object", required |-> << "paths" >>], FALSE),
      tool("calculate", "My own calculator.", [type |-> "object", required |-> << "expression" >>], FALSE) }

InitList ==
    /\ pc = "registry"
    /\ broken_modules \in BrokenChoices
    /\ tools = load_builtin_tools(broken_modules)
    /\ tool_spec = <<>>
    /\ selected_tools = <<>>
    /\ select_error = NoError
    /\ tool_schemas = <<>>
    /\ schemas_returned = <<>>
    /\ NoExec
    /\ NoLoop
    /\ NoStore

\* registry.tools[func.__tool_name__] = func
RegisterTool ==
    /\ pc = "registry"
    /\ \E func \in UserTools :
         /\ tools' = Put(tools, func.tool_name, func)
         /\ returned' = [op |-> "register", name |-> func.tool_name]
    /\ UNCHANGED << pc, broken_modules, tool_spec, selected_tools, select_error,
                    tool_schemas, schemas_returned, files, active_session_file, ops >>
    /\ UNCHANGED << exec_vars, loop_vars >>

\* registry.list_tools()
ListTools ==
    /\ pc = "registry"
    /\ returned' = [op |-> "list_tools", value |-> list_tools(tools)]
    /\ UNCHANGED << pc, registry_vars, files, active_session_file, ops >>
    /\ UNCHANGED << exec_vars, loop_vars >>

NextList == RegisterTool \/ ListTools

SpecList == InitList /\ [][NextList]_vars

---------------------------------------------------------------------------
(* The executor on its own: execute_tool_calls on one batch *)

InitExec ==
    /\ pc = "executor"
    /\ broken_modules = {}
    /\ tools = load_builtin_tools(broken_modules)
    /\ tool_spec \in ExecSpecs
    /\ selected_tools = select_tools(tools, tool_spec).value
    /\ select_error = NoError
    /\ tool_schemas = <<>>
    /\ schemas_returned = <<>>
    /\ tool_calls \in SeqsUpTo(ExecRequests, MaxExecBatch)
    /\ tool_results = <<>>
    /\ exec_raised = "no"
    /\ invoked = <<>>
    /\ NoLoop
    /\ NoStore

\* executor.execute_tool_calls(tool_calls, selected_tools)
ExecuteToolCalls ==
    /\ pc = "executor"
    /\ \E outcomes \in OutcomeChoices(tool_calls, selected_tools, HandlerOutcomes) :
         LET r == execute_tool_calls(tool_calls, selected_tools, outcomes)
         IN  /\ exec_raised' = r.raised
             /\ tool_results' = r.messages
             /\ invoked' = r.calls
    /\ pc' = "executed"
    /\ UNCHANGED << tool_calls, registry_vars, loop_vars >>
    /\ UNCHANGED store_vars

NextExec == ExecuteToolCalls

SpecExec == InitExec /\ [][NextExec]_vars

---------------------------------------------------------------------------
(* main.py: the commands that run the tool-calling loop *)

\* --use-tools values tried with the commands
LoopSpecs == { << "all" >>, << "calculate" >>, << "calculate", "frobnicate" >> }

\* tool-call requests the Transport may answer with; the id is the place of
\* the request in its batch
CallId(i) ==
    CASE i = 1 -> "call_1" [] i = 2 -> "call_2" [] i = 3 -> "call_3" [] OTHER -> "call_n"

LoopCalls ==
    { [name |-> "calculate", arguments |-> ValidCalcArgs],
      [name |-> "calculate", arguments |-> GarbageArgs],
      [name |-> "write_file", arguments |-> ValidWriteArgs] }

\* batches of n requests, no request twice in a batch
LoopBatches(n) ==
    { [i \in 1..Len(q) |-> ToolCall(CallId(i), q[i].name, q[i].arguments)] :
        q \in { r \in SeqOfLen(LoopCalls, n) :
                  \A i, j \in 1..n : i # j => r[i] # r[j] } }

\* what the handlers of the loop's tools do when they run: calculate
\* evaluates its expression (math.py line 54); write_file cannot write to
\* the path, catches the failure and reports it (file.py lines 90-91)
LoopOutcomes == {"returns", "returns_error"}

LoopOutcome(name) == IF name = "write_file" THEN "returns_error" ELSE "returns"

LoopOutcomeChoices(batch, selected) ==
    { o \in OutcomeChoices(batch, selected, LoopOutcomes) :
        \A i \in 1..Len(batch) :
            o[i] \in {"not run", LoopOutcome(batch[i].function.name)} }

\* the --stream / --no-stream option
StreamFlags == {"None", "True", "False"}

\* use_streaming as the commands compute it from the options alone (cli
\* lines 333-336, chat lines 587-590 with a tools_config)
StreamingDefault(v) ==
    IF stream = "None"
    THEN IF v = "chat" THEN FALSE ELSE ~schema_dict
    ELSE stream = "True"

\* the call passing on the streaming choice computed from the options
ChatCompletionArgsStreaming(messages, schemas) ==
    [messages |-> messages, stream |-> StreamingDefault(variant), tools |-> schemas]

\* the arguments of client.chat_completion at lines 48-55 / 153-160
ChatCompletionArgs(messages, schemas) ==
    [messages |-> messages, stream |-> FALSE, tools |-> schemas]

UserMessage == [role |-> "user", content |-> PlainText("What is 2 + 2?")]

\* a response with one choice; tool_calls_is_none tells a message whose
\* tool_calls is None (JSON null) from one whose tool_calls is a list
Response(finish_reason, content, calls) ==
    [ error |-> "none", finish_reason |-> finish_reason, tool_calls_is_none |-> FALSE,
      message |-> [role |-> "assistant", content |-> content, tool_calls |-> calls] ]

\* finish_reason "tool_calls" with "tool_calls": null in the message
NoneToolCallsResponse ==
    [ error |-> "none", finish_reason |-> "tool_calls", tool_calls_is_none |-> TRUE,
      message |-> [role |-> "assistant", content |-> NoContent, tool_calls |-> <<>>] ]

\* `not tool_calls` (line 69): None or an empty list
NotToolCalls(response) ==
    response.tool_calls_is_none \/ response.message.tool_calls = <<>>

\* responses asking for tools: finish_reason "tool_calls" and n requests
ToolCallResponses(n) ==
    { Response("tool_calls", NoContent, batch) : batch \in LoopBatches(n) }

\* responses with any other finish_reason: an answer that is JSON, one that is
\* not, an empty one, a null one, and an answer that also carries tool calls
FinalResponses ==
    { Response("stop", FreeText(Obj([answer |-> "4"])), <<>>),
      Response("stop", PlainText("The answer is 4."), <<>>),
      Response("stop", EmptyText, <<>>),
      Response("stop", NoContent, <<>>) }
    \cup { Response("stop", PlainText("The answer is 4."), batch) : batch \in LoopBatches(1) }

\* chat_completion raising APIError, raising another exception (with
\* api.py as it is: TypeError, chat_completion has no `tools` parameter),
\* or returning a response without choices
FailedResponse(what) == [error |-> what]

\* echo to stderr
Echo(msg) == [msg |-> msg]
EchoCalling(batch) == [i \in 1..Len(batch) |-> [msg |-> "[Calling tool]", tool |-> batch[i].function.name]]
LimitWarning(limit) == [msg |-> "Warning: Reached maximum tool call limit", limit |-> limit]

\* a range that yields one value more than range(max_calls)
RangeHasNextLong(done, limit) == done <= limit

\* a range that yields one value fewer than range(max_calls)
RangeHasNextShort(done, limit) == done < limit - 1

\* `for iteration in range(max_calls)`: another iteration follows
RangeHasNext(done, limit) == done < limit

\* the branch taken on the presence of tool calls, whatever the finish_reason
IsToolCallsByList(response) == response.message.tool_calls # <<>>

\* the branch taken at lines 66 / 170
IsToolCalls(response) == response.finish_reason = "tool_calls"

\* FormatFinal re-serialising without indent=2
FormatFinalCompact(schema, content) ==
    IF schema /\ content.kind # "none" /\ content # EmptyText
    THEN IF json_loads(content).raised = "no"
         THEN json_dumps(json_loads(content).val)
         ELSE content
    ELSE content

\* lines 93-98 / 196-203: the text displayed for a final answer
FormatFinal(schema, content) ==
    IF schema /\ content.kind # "none" /\ content # EmptyText
    THEN IF json_loads(content).raised = "no"
         THEN IndentedText(json_loads(content).val)
         ELSE content
    ELSE content

\* AfterBatch leaving out the results that report an error
AfterBatchDroppingErrors(messages, message, results) ==
    (messages \o << message >>)
        \o SelectSeq(results, LAMBDA m : ~(m.content.kind = "json" /\ HasKey(m.content.val, "error")))

\* AfterBatch with the results put before the message that asked for them
AfterBatchResultsFirst(messages, message, results) == (messages \o results) \o << message >>

\* AfterBatch starting the list anew
AfterBatchReplacing(messages, message, results) == << message >> \o results

\* the running list after a tool-call iteration (lines 80-84 / 179-188)
AfterBatch(messages, message, results) == (messages \o << message >>) \o results

\* PersistBatch forgetting the assistant message
PersistBatchResultsOnly(messages, message, results) == messages \o results

\* PersistBatch saving the assistant message without the results
PersistBatchAssistantOnly(messages, message, results) == messages \o << message >>

\* conversation_data["messages"] after a tool-call iteration (lines 180, 186-188)
PersistBatch(messages, message, results) == (messages \o << message >>) \o results

Init ==
    /\ pc = "command"
    /\ variant \in {"single", "chat"}
    /\ broken_modules \in BrokenChoices
    /\ tool_spec \in LoopSpecs
    /\ max_calls \in 0..MaxCalls
    /\ schema_dict \in BOOLEAN
    /\ stream \in StreamFlags
    /\ first_run = NoRun
    /\ tools = <<>>
    /\ selected_tools = <<>>
    /\ select_error = NoError
    /\ tool_schemas = <<>>
    /\ schemas_returned = <<>>
    /\ NoExec
    /\ iteration = 0
    /\ current_messages = <<>>
    /\ conversation = << UserMessage >>
    /\ saved = IF variant = "chat" THEN conversation ELSE <<>>
    /\ sent = <<>>
    /\ responses = <<>>
    /\ batches = 0
    /\ stdout = <<>>
    /\ stderr = <<>>
    /\ exit_code = NotExited
    /\ NoStore

\* the command ends with sys.exit(1) after echoing `msg`
Fail(msg) ==
    /\ stderr' = Append(stderr, Echo(msg))
    /\ exit_code' = 1
    /\ pc' = "done"

\* NextIteration treating the used-up range as a failure
NextIterationFailing(done, err) ==
    IF RangeHasNext(done, max_calls)
    THEN /\ pc' = "loop"
         /\ stderr' = err
         /\ UNCHANGED exit_code
    ELSE /\ pc' = "done"
         /\ stderr' = Append(err, LimitWarning(max_calls))
         /\ exit_code' = 1

\* lines 45 and 115-116 / 151 and 221: after `done` iterations, with `err`
\* on stderr, the for loop runs its body again, or its range is used up and
\* the statement after the loop echoes the warning and the command returns
NextIteration(done, err) ==
    IF RangeHasNext(done, max_calls)
    THEN /\ pc' = "loop"
         /\ stderr' = err
         /\ UNCHANGED exit_code
    ELSE /\ pc' = "done"
         /\ stderr' = Append(err, LimitWarning(max_calls))
         /\ exit_code' = 0

\* cli lines 347-351, chat lines 596-600: NOUS_API_KEY is not set
ClientInitFails ==
    /\ pc = "command"
    /\ Fail("Error: API key not found")
    /\ UNCHANGED << registry_vars, exec_vars, variant, max_calls, schema_dict, stream, first_run, iteration,
                    current_messages, conversation, saved, sent, responses, batches, stdout >>
    /\ UNCHANGED store_vars

\* cli lines 361-368, chat lines 605-612: select_tools raises ValueError
SelectionFails ==
    /\ pc = "command"
    /\ tools' = load_builtin_tools(broken_modules)
    /\ select_tools(tools', tool_spec).raised
    /\ select_error' = select_tools(tools', tool_spec)
    /\ Fail("Error: Unknown tool")
    /\ UNCHANGED << broken_modules, tool_spec, selected_tools, tool_schemas, schemas_returned >>
    /\ UNCHANGED << exec_vars, variant, max_calls, schema_dict, stream, first_run, iteration,
                    current_messages, conversation, saved, sent, responses, batches, stdout >>
    /\ UNCHANGED store_vars

\* cli lines 361-383, chat lines 605-625: the tools are selected and the
\* loop function is entered (lines 43-45 / 149-151: the running list is a
\* copy, and the for loop starts)
SelectionSucceeds ==
    /\ pc = "command"
    /\ tools' = load_builtin_tools(broken_modules)
    /\ ~select_tools(tools', tool_spec).raised
    /\ selected_tools' = select_tools(tools', tool_spec).value
    /\ tool_schemas' = get_tool_schemas(selected_tools')
    /\ schemas_returned' = Append(schemas_returned, tool_schemas')
    /\ current_messages' = conversation
    /\ NextIteration(0, stderr)
    /\ UNCHANGED << broken_modules, tool_spec, select_error >>
    /\ UNCHANGED << exec_vars, variant, max_calls, schema_dict, stream, first_run, iteration,
                    conversation, saved, sent, responses, batches, stdout >>
    /\ UNCHANGED store_vars

---------------------------------------------------------------------------
(* main.py: _execute_with_tools and _execute_chat_with_tools *)

\* what the Transport may return
Responses ==
    UNION { ToolCallResponses(n) : n \in 0..MaxBatch }
        \cup { NoneToolCallsResponse } \cup FinalResponses

\* client.chat_completion(messages=..., stream=False, tools=tool_schemas)
TransportCall(response) ==
    /\ sent' = Append(sent, ChatCompletionArgs(current_messages, tool_schemas))
    /\ responses' = Append(responses, response)

\* the body of the for loop is running
InLoop(v) ==
    /\ pc = "loop"
    /\ variant = v

\* the loop ends without sys.exit: the command returns
Return ==
    /\ pc' = "done"
    /\ exit_code' = 0

\* the bookkeeping of one executed batch
RecordBatch(batch, r) ==
    /\ tool_calls' = batch
    /\ tool_results' = r.messages
    /\ exec_raised' = r.raised
    /\ invoked' = invoked \o r.calls
    /\ batches' = batches + 1

\* ---- _execute_with_tools (stateless)

\* the APIError handler going on to the next iteration instead of exiting
ExecuteWithTools_APIErrorRetried ==
    /\ InLoop("single")
    /\ TransportCall(FailedResponse("APIError"))
    /\ iteration' = iteration + 1
    /\ NextIteration(iteration', Append(stderr, Echo("API Error")))
    /\ UNCHANGED << registry_vars, exec_vars, variant, max_calls, schema_dict, stream, first_run,
                    current_messages, conversation, saved, batches, stdout >>
    /\ UNCHANGED store_vars

\* lines 108-110
ExecuteWithTools_APIError ==
    /\ InLoop("single")
    /\ TransportCall(FailedResponse("APIError"))
    /\ Fail("API Error")
    /\ UNCHANGED << registry_vars, exec_vars, variant, max_calls, schema_dict, stream, first_run, iteration,
                    current_messages, conversation, saved, batches, stdout >>
    /\ UNCHANGED store_vars

\* lines 111-113: any other exception raised by the call
ExecuteWithTools_Exception ==
    /\ InLoop("single")
    /\ TransportCall(FailedResponse("TypeError"))
    /\ Fail("Error: exception")
    /\ UNCHANGED << registry_vars, exec_vars, variant, max_calls, schema_dict, stream, first_run, iteration,
                    current_messages, conversation, saved, batches, stdout >>
    /\ UNCHANGED store_vars

\* lines 58-60
ExecuteWithTools_NoChoices ==
    /\ InLoop("single")
    /\ TransportCall(FailedResponse("no choices"))
    /\ Fail("Error: No response from API")
    /\ UNCHANGED << registry_vars, exec_vars, variant, max_calls, schema_dict, stream, first_run, iteration,
                    current_messages, conversation, saved, batches, stdout >>
    /\ UNCHANGED store_vars

\* lines 66-72, then line 116: `break` leaves the for loop, and the
\* statement after the loop echoes the limit warning
ExecuteWithTools_NoToolCalls ==
    /\ InLoop("single")
    /\ \E response \in Responses :
         /\ IsToolCalls(response)
         /\ NotToolCalls(response)
         /\ TransportCall(response)
    /\ stderr' = stderr \o
          << Echo("Error: finish_reason is tool_calls but no tool_calls in response"),
             LimitWarning(max_calls) >>
    /\ Return
    /\ UNCHANGED << registry_vars, exec_vars, variant, max_calls, schema_dict, stream, first_run, iteration,
                    current_messages, conversation, saved, batches, stdout >>
    /\ UNCHANGED store_vars

\* lines 66-84 (and 111-113 should the executor raise), then back to line 45
ExecuteWithTools_ToolCalls ==
    /\ InLoop("single")
    /\ \E response \in Responses :
         /\ IsToolCalls(response)
         /\ ~NotToolCalls(response)
         /\ TransportCall(response)
         /\ \E outcomes \in LoopOutcomeChoices(response.message.tool_calls,
                                               selected_tools) :
              LET batch == response.message.tool_calls
                  r     == execute_tool_calls(batch, selected_tools, outcomes)
              IN  /\ RecordBatch(batch, r)
                  /\ IF r.raised = "no"
                     THEN /\ current_messages' =
                                AfterBatch(current_messages, response.message, r.messages)
                          /\ iteration' = iteration + 1
                          /\ NextIteration(iteration', stderr \o EchoCalling(batch))
                     ELSE /\ current_messages' = Append(current_messages, response.message)
                          /\ stderr' = (stderr \o EchoCalling(batch))
                                          \o << Echo("Error: exception") >>
                          /\ exit_code' = 1
                          /\ pc' = "done"
                          /\ UNCHANGED iteration
    /\ UNCHANGED << registry_vars, variant, max_calls, schema_dict, stream, first_run, conversation, saved,
                    stdout >>
    /\ UNCHANGED store_vars

\* lines 88-106
ExecuteWithTools_Final ==
    /\ InLoop("single")
    /\ \E response \in Responses :
         /\ ~IsToolCalls(response)
         /\ TransportCall(response)
         /\ stdout' = Append(stdout, FormatFinal(schema_dict, response.message.content))
    /\ Return
    /\ UNCHANGED << registry_vars, exec_vars, variant, max_calls, schema_dict, stream, first_run, iteration,
                    current_messages, conversation, saved, batches, stderr >>
    /\ UNCHANGED store_vars

\* ---- _execute_chat_with_tools (persisting)

\* lines 217-219
ExecuteChatWithTools_APIError ==
    /\ InLoop("chat")
    /\ TransportCall(FailedResponse("APIError"))
    /\ Fail("API Error")
    /\ UNCHANGED << registry_vars, exec_vars, variant, max_calls, schema_dict, stream, first_run, iteration,
                    current_messages, conversation, saved, batches, stdout >>
    /\ UNCHANGED store_vars

\* no handler in the function: the exception reaches chat(), lines 692-694
ExecuteChatWithTools_Exception ==
    /\ InLoop("chat")
    /\ TransportCall(FailedResponse("TypeError"))
    /\ Fail("Unexpected error: exception")
    /\ UNCHANGED << registry_vars, exec_vars, variant, max_calls, schema_dict, stream, first_run, iteration,
                    current_messages, conversation, saved, batches, stdout >>
    /\ UNCHANGED store_vars

\* lines 162-164
ExecuteChatWithTools_NoChoices ==
    /\ InLoop("chat")
    /\ TransportCall(FailedResponse("no choices"))
    /\ Fail("Error: No response from API")
    /\ UNCHANGED << registry_vars, exec_vars, variant, max_calls, schema_dict, stream, first_run, iteration,
                    current_messages, conversation, saved, batches, stdout >>
    /\ UNCHANGED store_vars

\* lines 170-176: tool_calls is None and `for tc in tool_calls` raises
\* TypeError, which no handler of the function catches: it reaches chat(),
\* lines 692-694
ExecuteChatWithTools_ToolCallsNone ==
    /\ InLoop("chat")
    /\ \E response \in Responses :
         /\ IsToolCalls(response)
         /\ response.tool_calls_is_none
         /\ TransportCall(response)
    /\ Fail("Unexpected error: 'NoneType' object is not iterable")
    /\ UNCHANGED << registry_vars, exec_vars, variant, max_calls, schema_dict, stream, first_run, iteration,
                    current_messages, conversation, saved, batches, stdout >>
    /\ UNCHANGED store_vars

\* lines 170-190, whatever the length of the tool_calls list: the message
\* and the results go to the running list and to conversation_data, which
\* is saved; then back to line 151
ExecuteChatWithTools_ToolCalls ==
    /\ InLoop("chat")
    /\ \E response \in Responses :
         /\ IsToolCalls(response)
         /\ ~response.tool_calls_is_none
         /\ TransportCall(response)
         /\ \E outcomes \in LoopOutcomeChoices(response.message.tool_calls,
                                               selected_tools) :
              LET batch == response.message.tool_calls
                  r     == execute_tool_calls(batch, selected_tools, outcomes)
              IN  /\ RecordBatch(batch, r)
                  /\ IF r.raised = "no"
                     THEN /\ current_messages' =
                                AfterBatch(current_messages, response.message, r.messages)
                          /\ conversation' =
                                PersistBatch(conversation, response.message, r.messages)
                          /\ saved' = conversation'
                          /\ iteration' = iteration + 1
                          /\ NextIteration(iteration', stderr \o EchoCalling(batch))
                     ELSE /\ current_messages' = Append(current_messages, response.message)
                          /\ conversation' = Append(conversation, response.message)
                          /\ stderr' = (stderr \o EchoCalling(batch))
                                          \o << Echo("Unexpected error: exception") >>
                          /\ exit_code' = 1
                          /\ pc' = "done"
                          /\ UNCHANGED << iteration, saved >>
    /\ UNCHANGED << registry_vars, variant, max_calls, schema_dict, stream, first_run, stdout >>
    /\ UNCHANGED store_vars

\* lines 192-215
ExecuteChatWithTools_Final ==
    /\ InLoop("chat")
    /\ \E response \in Responses :
         /\ ~IsToolCalls(response)
         /\ TransportCall(response)
         /\ stdout' = Append(stdout, FormatFinal(schema_dict, response.message.content))
         /\ conversation' = Append(conversation,
                               [role |-> "assistant", content |-> response.message.content])
         /\ saved' = conversation'
    /\ Return
    /\ UNCHANGED << registry_vars, exec_vars, variant, max_calls, schema_dict, stream, first_run, iteration,
                    current_messages, batches, stderr >>
    /\ UNCHANGED store_vars

Next ==
    \/ ClientInitFails
    \/ SelectionFails
    \/ SelectionSucceeds
    \/ ExecuteWithTools_APIError
    \/ ExecuteWithTools_Exception
    \/ ExecuteWithTools_NoChoices
    \/ ExecuteWithTools_NoToolCalls
    \/ ExecuteWithTools_ToolCalls
    \/ ExecuteWithTools_Final
    \/ ExecuteChatWithTools_APIError
    \/ ExecuteChatWithTools_Exception
    \/ ExecuteChatWithTools_NoChoices
    \/ ExecuteChatWithTools_ToolCallsNone
    \/ ExecuteChatWithTools_ToolCalls
    \/ ExecuteChatWithTools_Final

Spec == Init /\ [][Next]_vars

\* the command runs to its end: it is one sequential process
FairSpec == Spec /\ WF_vars(Next)

---------------------------------------------------------------------------
(* Properties of the executor, checked under SpecExec *)

\* the result message of request `req` reports an error as data
IsErrorResult(req, res) ==
    /\ res.role = "tool"
    /\ res.tool_call_id = req.id
    /\ res.name = req.function.name
    /\ res.content.kind = "json"
    /\ HasKey(res.content.val, "error")

ArgsParse(req) == req.function.arguments.kind = "json"

\* the failure branch request number i of the batch falls into, if any
FailureBranch(i) ==
    LET req == tool_calls[i]
    IN  CASE ~ArgsParse(req) -> "arguments do not parse"
          [] req.function.name \notin KeySet(selected_tools) -> "not selected"
          [] ~Binds(GetValue(selected_tools, req.function.name),
                    req.function.arguments.val) -> "signature mismatch"
          [] \E k \in 1..Len(invoked) :
                /\ invoked[k].pos = i
                /\ invoked[k].outcome \in {"raises", "raises_TypeError"} -> "handler failure"
          [] OTHER -> "none"

\* C4: a batch of N requests yields exactly N tool-role messages, result i
\* carrying the tool_call_id and the function name of request i, whether
\* the individual calls succeed or fail.
C4_OneResultPerRequest ==
    pc = "executed" =>
        /\ exec_raised = "no"
        /\ Len(tool_results) = Len(tool_calls)
        /\ \A i \in 1..Len(tool_calls) :
              /\ tool_results[i].role = "tool"
              /\ tool_results[i].tool_call_id = tool_calls[i].id
              /\ tool_results[i].name = tool_calls[i].function.name

\* a batch of two requests with different ids and names, one failing and one
\* succeeding, has been executed
C4_Witness ==
    /\ pc = "executed"
    /\ Len(tool_calls) = 2
    /\ tool_calls[1].id # tool_calls[2].id
    /\ tool_calls[1].function.name # tool_calls[2].function.name
    /\ FailureBranch(1) # "none"
    /\ FailureBranch(2) = "none"
    /\ Len(tool_results) = 2

\* C5: no exception leaves the executor; in each of the four failure
\* branches the result is a well-formed tool message whose content parses
\* to an object with an `error` key; and a request whose arguments do not
\* parse never reaches its handler.
C5_FailuresAreData ==
    pc = "executed" =>
        /\ exec_raised = "no"
        /\ Len(tool_results) = Len(tool_calls)
        /\ \A i \in 1..Len(tool_calls) :
              /\ FailureBranch(i) # "none" => IsErrorResult(tool_calls[i], tool_results[i])
              /\ ~ArgsParse(tool_calls[i]) =>
                    \A k \in 1..Len(invoked) : invoked[k].pos # i

\* a batch holding a request that is not selected and one whose handler
\* raised has been executed
C5_Witness ==
    /\ pc = "executed"
    /\ Len(tool_calls) = 2
    /\ FailureBranch(1) = "not selected"
    /\ FailureBranch(2) = "handler failure"
    /\ Len(tool_results) = 2

---------------------------------------------------------------------------
(* Properties of the registry, checked under SpecRegistry *)

StrippedNames(spec) == [i \in 1..Len(spec) |-> strip(spec[i])]

UnknownPositions(spec) ==
    { i \in 1..Len(spec) : StrippedNames(spec)[i] \notin KeySet(tools) }

FirstUnknown(spec) ==
    StrippedNames(spec)[CHOOSE i \in UnknownPositions(spec) :
                           \A j \in UnknownPositions(spec) : i <= j]

SeqToSet(q) == { q[i] : i \in 1..Len(q) }

\* C7: for a comma-separated spec, select_tools succeeds only if every
\* trimmed name is registered, and then returns exactly those names, each
\* mapped to its registered definition; otherwise the call fails with an
\* error naming the first unknown name and listing every registered name,
\* and nothing is returned.
C7_SelectAllOrNothing ==
    (pc \in {"selected", "select_failed"} /\ tool_spec # << "all" >>) =>
        IF UnknownPositions(tool_spec) = {}
        THEN /\ pc = "selected"
             /\ select_error = NoError
             /\ KeySet(selected_tools) = SeqToSet(StrippedNames(tool_spec))
             /\ Len(selected_tools) = Cardinality(KeySet(selected_tools))
             /\ \A i \in 1..Len(selected_tools) :
                   selected_tools[i].value = GetValue(tools, selected_tools[i].key)
        ELSE /\ pc = "select_failed"
             /\ select_error.raised
             /\ select_error.unknown = FirstUnknown(tool_spec)
             /\ SeqToSet(select_error.available) = KeySet(tools)
             /\ Len(select_error.available) = Len(tools)
             /\ selected_tools = <<>>

\* a spec whose first name is registered and whose second is not has failed
C7_Witness ==
    /\ pc = "select_failed"
    /\ Len(tool_spec) = 2
    /\ strip(tool_spec[1]) \in KeySet(tools)
    /\ select_error.unknown = strip(tool_spec[2])
    /\ Len(select_error.available) = 5

\* C9: select_tools("all") returns every registered name mapped to its
\* registered definition and nothing else, so the result is as large as
\* the registry.
C9_AllSelectsRegistry ==
    (pc # "registry" /\ tool_spec = << "all" >>) =>
        /\ pc = "selected"
        /\ KeySet(selected_tools) = KeySet(tools)
        /\ Len(selected_tools) = Len(tools)
        /\ \A i \in 1..Len(selected_tools) :
              selected_tools[i].value = GetValue(tools, selected_tools[i].key)

\* "all" has been selected from a registry holding the five built-ins
C9_Witness ==
    /\ pc = "selected"
    /\ tool_spec = << "all" >>
    /\ Len(tools) = 5
    /\ Len(selected_tools) = 5

\* C10: every get_tool_schemas call returns one schema per selected tool, in
\* the iteration order of the selection, each the schema registered for
\* that tool; repeated calls return the same list; the selection and the
\* registry are as they were before the calls.
C10_SchemasFollowSelection ==
    pc = "selected" =>
        /\ \A c \in 1..Len(schemas_returned) :
              /\ Len(schemas_returned[c]) = Len(selected_tools)
              /\ \A j \in 1..Len(selected_tools) :
                    /\ schemas_returned[c][j].function.name = selected_tools[j].key
                    /\ schemas_returned[c][j] =
                          BuiltinTool(selected_tools[j].key).tool_schema
        /\ \A c, d \in 1..Len(schemas_returned) :
              schemas_returned[c] = schemas_returned[d]
        /\ selected_tools = select_tools(tools, tool_spec).value
        /\ tools = load_builtin_tools(broken_modules)

\* get_tool_schemas has been called twice on a selection of two tools whose
\* insertion order is not their sorted order
C10_Witness ==
    /\ pc = "selected"
    /\ Len(schemas_returned) >= 2
    /\ Len(selected_tools) = 2
    /\ Rank(selected_tools[1].key) > Rank(selected_tools[2].key)


---------------------------------------------------------------------------
(* chat.py: ConversationManager. A str is a sequence of its characters; a  *)
(* file of the conversations directory is named by the stem of its path;  *)
(* json.dump followed by json.load gives back the dicts, lists and strs   *)
(* written, so a file is modelled by the data it holds (time stamps left  *)
(* out).                                                                  *)

\* str.isalnum() on one character
isalnum(c) == c \in {"a", "b", "0", "1", "2", "3", "4", "5", "6", "7", "8", "9"}

\* str.isspace() on one character
isspace(c) == c = " "

\* str(counter)
RECURSIVE str(_)
str(n) ==
    LET digit(d) == << "0", "1", "2", "3", "4", "5", "6", "7", "8", "9" >>[d + 1]
    IN  IF n < 10 THEN << digit(n) >> ELSE str(n \div 10) \o << digit(n % 10) >>

\* str.strip()
RECURSIVE strip_text(_)
strip_text(text) ==
    IF text = <<>> THEN text
    ELSE IF isspace(Head(text)) THEN strip_text(Tail(text))
    ELSE IF isspace(text[Len(text)]) THEN strip_text(SubSeq(text, 1, Len(text) - 1))
    ELSE text

\* _get_conversation_path (lines 38-40): the stem of the file
get_conversation_path(name) ==
    [i \in 1..Len(name) |->
        IF isalnum(name[i]) \/ name[i] \in {"-", "_"} THEN name[i] ELSE "_"]

\* conv_path.exists()
exists(fs, path) == path \in DOMAIN fs

\* open(conv_path, 'w') and json.dump
dump_file(fs, path, data) ==
    [f \in DOMAIN fs \cup {path} |-> IF f = path THEN data ELSE fs[f]]

\* conv_path.unlink()
unlink(fs, path) == [f \in DOMAIN fs \ {path} |-> fs[f]]

\* _ensure_unique_name (lines 51-58): the while loop
RECURSIVE ensure_unique_name_from(_, _, _, _)
ensure_unique_name_from(fs, original_name, name, counter) ==
    IF exists(fs, get_conversation_path(name))
    THEN ensure_unique_name_from(fs, original_name,
                                 original_name \o << "-" >> \o str(counter), counter + 1)
    ELSE name

ensure_unique_name(fs, name) == ensure_unique_name_from(fs, name, name, 2)

NoPrompt == <<>>

\* create_conversation writing under the requested name
create_conversation_overwriting(fs, name, initial_message, system_prompt) ==
    LET messages == (IF system_prompt # NoPrompt
                     THEN << [role |-> "system", content |-> system_prompt] >>
                     ELSE <<>>) \o << initial_message >>
    IN  [ files |-> dump_file(fs, get_conversation_path(name),
                               [name |-> name, messages |-> messages]),
          raised |-> "no", value |-> name ]

\* create_conversation (lines 84-110)
create_conversation(fs, name, initial_message, system_prompt) ==
    LET unique_name == ensure_unique_name(fs, name)
        messages == (IF system_prompt # NoPrompt
                     THEN << [role |-> "system", content |-> system_prompt] >>
                     ELSE <<>>) \o << initial_message >>
        conversation_data == [name |-> unique_name, messages |-> messages]
    IN  [ files |-> dump_file(fs, get_conversation_path(unique_name), conversation_data),
          raised |-> "no", value |-> unique_name ]

\* load_conversation (lines 123-132)
load_conversation(fs, name) ==
    IF ~exists(fs, get_conversation_path(name))
    THEN [raised |-> "FileNotFoundError"]
    ELSE [raised |-> "no", value |-> fs[get_conversation_path(name)]]

\* save_conversation (lines 142-148)
save_conversation(fs, name, conversation_data) ==
    dump_file(fs, get_conversation_path(name), conversation_data)

\* add_message putting the new message first
add_message_prepending(fs, name, role, content) ==
    LET loaded == load_conversation(fs, name)
    IN  IF loaded.raised # "no"
        THEN [files |-> fs, raised |-> loaded.raised]
        ELSE [ files |-> save_conversation(fs, name,
                   [loaded.value EXCEPT !.messages =
                        << [role |-> role, content |-> content] >> \o @]),
               raised |-> "no" ]

\* add_message (lines 163-168)
add_message(fs, name, role, content) ==
    LET loaded == load_conversation(fs, name)
    IN  IF loaded.raised # "no"
        THEN [files |-> fs, raised |-> loaded.raised]
        ELSE [ files |-> save_conversation(fs, name,
                   [loaded.value EXCEPT !.messages =
                        Append(@, [role |-> role, content |-> content])]),
               raised |-> "no" ]

None == [none |-> TRUE]
Some(text) == [none |-> FALSE, text |-> text]

\* set_active_session (lines 215-216)
set_active_session(name) == [exists |-> TRUE, text |-> name]

\* get_active_session (lines 223-230)
get_active_session(file) ==
    IF ~file.exists THEN None ELSE Some(strip_text(file.text))

\* clear_active_session (lines 234-235)
clear_active_session(file) == NoFile

\* delete_conversation (lines 246-256)
delete_conversation(fs, file, name) ==
    IF ~exists(fs, get_conversation_path(name))
    THEN [files |-> fs, active |-> file, raised |-> "FileNotFoundError"]
    ELSE [ files |-> unlink(fs, get_conversation_path(name)),
           active |-> IF get_active_session(file) = Some(name)
                      THEN clear_active_session(file)
                      ELSE file,
           raised |-> "no" ]

---------------------------------------------------------------------------
(* The conversation store driven by its callers *)

\* conversation names tried: a plain one, the one the first duplicate of it
\* gets, two that differ only in a character the path replaces, and one
\* with a leading blank
Names ==
    { << "a" >>, << "a", "-", "2" >>, << "a", " ", "b" >>, << "a", "_", "b" >>,
      << " ", "a" >> }

SystemPrompts == { NoPrompt, << "b" >> }

FirstMessage == [role |-> "user", content |-> << "a" >>]

\* the contents add_message is called with
AddedContents == { << "b" >>, << "a", "b" >> }

InitStore ==
    /\ pc = "store"
    /\ broken_modules = {}
    /\ tools = <<>>
    /\ tool_spec = <<>>
    /\ selected_tools = <<>>
    /\ select_error = NoError
    /\ tool_schemas = <<>>
    /\ schemas_returned = <<>>
    /\ NoExec
    /\ NoLoop
    /\ NoStore

\* what a store operation leaves alone
StoreFrame ==
    /\ UNCHANGED << pc, registry_vars, exec_vars, loop_vars >>

CreateConversation ==
    /\ pc = "store"
    /\ ops < MaxOps
    /\ \E name \in Names, system_prompt \in SystemPrompts :
         LET r == create_conversation(files, name, FirstMessage, system_prompt)
         IN  /\ files' = r.files
             /\ returned' = [op |-> "create_conversation", name |-> name,
                             raised |-> r.raised, value |-> r.value]
    /\ ops' = ops + 1
    /\ UNCHANGED active_session_file
    /\ StoreFrame

AddMessage ==
    /\ pc = "store"
    /\ ops < MaxOps
    /\ \E name \in Names, content \in AddedContents :
         LET r == add_message(files, name, "assistant", content)
         IN  /\ files' = r.files
             /\ returned' = [op |-> "add_message", name |-> name, raised |-> r.raised,
                             value |-> [role |-> "assistant", content |-> content]]
    /\ ops' = ops + 1
    /\ UNCHANGED active_session_file
    /\ StoreFrame

DeleteConversation ==
    /\ pc = "store"
    /\ ops < MaxOps
    /\ \E name \in Names :
         LET r == delete_conversation(files, active_session_file, name)
         IN  /\ files' = r.files
             /\ active_session_file' = r.active
             /\ returned' = [op |-> "delete_conversation", name |-> name, raised |-> r.raised]
    /\ ops' = ops + 1
    /\ StoreFrame

\* main.py lines 491-492 and 523-538: the session is set to a conversation
\* just loaded, or to the name create_conversation returned
SetActiveSession ==
    /\ pc = "store"
    /\ \E name \in Names :
         /\ load_conversation(files, name).raised = "no"
         /\ active_session_file' = set_active_session(name)
         /\ returned' = [op |-> "set_active_session", name |-> name, raised |-> "no"]
    /\ UNCHANGED << files, ops >>
    /\ StoreFrame

ClearActiveSession ==
    /\ pc = "store"
    /\ active_session_file' = clear_active_session(active_session_file)
    /\ returned' = [op |-> "clear_active_session", name |-> <<>>, raised |-> "no"]
    /\ UNCHANGED << files, ops >>
    /\ StoreFrame

NextStore ==
    \/ CreateConversation
    \/ AddMessage
    \/ DeleteConversation
    \/ SetActiveSession
    \/ ClearActiveSession

SpecStore == InitStore /\ [][NextStore]_vars

---------------------------------------------------------------------------
(* Properties of the tool-calling loop, checked under Spec and FairSpec *)

\* the loop function has been entered
LoopEntered == current_messages # <<>>

\* a response asking for tools with a non-empty list of requests
IsToolCallResponse(response) ==
    /\ response.error = "none"
    /\ response.finish_reason = "tool_calls"
    /\ response.message.tool_calls # <<>>

\* a response carrying the final content
IsFinalResponse(response) ==
    /\ response.error = "none"
    /\ response.finish_reason # "tool_calls"

\* the Transport has answered nothing but tool-call responses up to number n
OnlyToolCallResponses(n) ==
    \A i \in 1..n : IsToolCallResponse(responses[i])

\* C1: whatever the Transport answers and whatever max_calls >= 0 is, a run
\* of the loop (either variant) never issues more than max_calls Transport
\* calls, and it terminates.
C1_LoopTerminatesWithinLimit ==
    /\ [](Len(sent) <= max_calls)
    /\ <>(pc = "done")

\* a run that used up a limit of two or more calls has ended
C1_Witness ==
    /\ pc = "done"
    /\ LoopEntered
    /\ max_calls >= 2
    /\ Len(sent) = max_calls

\* C2: when every answer of the Transport is a tool-call response with a
\* non-empty list of requests, the run ends after exactly max_calls Transport
\* calls, and the last thing it reports is the warning naming max_calls.
C2_ExhaustsLimit ==
    (pc = "done" /\ LoopEntered /\ OnlyToolCallResponses(Len(responses)))
        => /\ Len(sent) = max_calls
           /\ Len(responses) = max_calls
           /\ stderr # <<>>
           /\ stderr[Len(stderr)] = LimitWarning(max_calls)
           /\ stdout = <<>>

\* a run with a limit of two or more has been answered by tool calls only
C2_Witness ==
    /\ pc = "done"
    /\ LoopEntered
    /\ max_calls >= 2
    /\ Len(responses) = max_calls
    /\ OnlyToolCallResponses(Len(responses))

C6_OnlySelectedToolsRun ==
    /\ \A k \in 1..Len(invoked) :
          /\ invoked[k].name \in KeySet(selected_tools)
          /\ invoked[k].func = invoked[k].name
    /\ \A i \in 1..Len(current_messages) :
          (current_messages[i].role = "tool"
             /\ current_messages[i].name \notin KeySet(selected_tools))
          => /\ current_messages[i].content.kind = "json"
             /\ HasKey(current_messages[i].content.val, "error")
             /\ \A k \in 1..Len(invoked) : invoked[k].name # current_messages[i].name

\* write_file is registered but not selected, a request for it has been
\* answered, and the handler of a selected tool has run
C6_Witness ==
    /\ "write_file" \in KeySet(tools)
    /\ "write_file" \notin KeySet(selected_tools)
    /\ \E i \in 1..Len(current_messages) :
          /\ current_messages[i].role = "tool"
          /\ current_messages[i].name = "write_file"
    /\ \E k \in 1..Len(invoked) : invoked[k].ran

\* the selection spec holds a name the registry does not know
HasUnknownName ==
    /\ tool_spec # << "all" >>
    /\ \E i \in 1..Len(tool_spec) :
          strip(tool_spec[i]) \notin KeySet(load_builtin_tools(broken_modules))

\* C8: in both commands, when the selection spec holds an unknown name the
\* loop is never entered, no Transport call is ever made, and the command
\* ends with a non-zero exit code.
C8_UnknownNameFailsBeforeTransport ==
    (variant \in {"single", "chat"} /\ HasUnknownName)
        => /\ sent = <<>>
           /\ responses = <<>>
           /\ pc \in {"command", "done"}
           /\ ~LoopEntered
           /\ pc = "done" => exit_code = 1

\* the chat command has ended on the ValueError of select_tools
C8_Witness ==
    /\ pc = "done"
    /\ variant = "chat"
    /\ HasUnknownName
    /\ select_error.raised
    /\ exit_code = 1


\* the call failed: chat_completion raised
TransportFailed(response) == response.error \in {"APIError", "TypeError"}

\* C11: every Transport call of the loop, in either variant and at every
\* iteration, is made with stream=False and with the schemas of the selected
\* tools, whatever --stream / --no-stream says and whether or not a schema
\* is configured.
C11_CallsNeverStream ==
    \A i \in 1..Len(sent) :
        /\ sent[i].stream = FALSE
        /\ sent[i].tools = tool_schemas
        /\ sent[i].tools = get_tool_schemas(selected_tools)

\* the chat command was given --stream, has tools and no schema, and has
\* called the Transport twice
C11_Witness ==
    /\ variant = "chat"
    /\ stream = "True"
    /\ ~schema_dict
    /\ tool_schemas # <<>>
    /\ Len(sent) >= 2

\* C12: a failed Transport call is the last one of the run: the run ends at
\* once with exit code 1, without another call, without executing a tool
\* and without an answer on stdout.
C12_TransportFailureEndsRun ==
    /\ [](\A i \in 1..Len(responses) :
             TransportFailed(responses[i])
                => /\ i = Len(responses)
                   /\ Len(sent) = Len(responses)
                   /\ pc = "done"
                   /\ exit_code = 1
                   /\ stdout = <<>>)
    /\ [][(Len(responses') > Len(responses)
             /\ TransportFailed(responses'[Len(responses')]))
            => /\ invoked' = invoked
               /\ batches' = batches
               /\ current_messages' = current_messages
               /\ conversation' = conversation]_vars

\* the second Transport call of a run failed with an APIError, after a batch
\* of tools was executed
C12_Witness ==
    /\ pc = "done"
    /\ Len(responses) = 2
    /\ responses[2].error = "APIError"
    /\ batches = 1
    /\ invoked # <<>>


\* a response with finish_reason "tool_calls" and no tool call in it
IsAnomaly(response) ==
    /\ response.error = "none"
    /\ response.finish_reason = "tool_calls"
    /\ NotToolCalls(response)

AnomalyReport == Echo("Error: finish_reason is tool_calls but no tool_calls in response")

\* C13: in both variants a response with finish_reason "tool_calls" and an
\* empty or missing tool_calls list is the last one of the run: the run
\* reports the anomaly and ends without another Transport call.
C13_AnomalyEndsRun ==
    \A i \in 1..Len(responses) :
        IsAnomaly(responses[i])
           => /\ i = Len(responses)
              /\ pc = "done"
              /\ \E k \in 1..Len(stderr) : stderr[k] = AnomalyReport

\* the run used up its range: max_calls iterations were completed
Exhausted ==
    /\ pc = "done"
    /\ LoopEntered
    /\ iteration = max_calls

\* a message a tool-call iteration appends: a tool result, or an assistant
\* message carrying tool_calls
IsToolTurnMessage(m) == m.role = "tool" \/ "tool_calls" \in DOMAIN m

\* C14: a run that ends by exhaustion ends on the warning naming max_calls,
\* with nothing on stdout and with exit code 0; in the chat variant the
\* conversation holds nothing but the initial messages and the messages of
\* the tool-call iterations (no final assistant message), and that is what
\* was saved.
C14_ExhaustionIsNotFailure ==
    Exhausted =>
        /\ stderr # <<>>
        /\ stderr[Len(stderr)] = LimitWarning(max_calls)
        /\ stdout = <<>>
        /\ exit_code = 0
        /\ variant = "chat" =>
              /\ conversation = current_messages
              /\ saved = conversation
              /\ \A i \in 2..Len(conversation) : IsToolTurnMessage(conversation[i])

\* the chat variant has used up a limit of two iterations
C14_Witness ==
    /\ Exhausted
    /\ variant = "chat"
    /\ max_calls = 2
    /\ Len(sent) = 2
    /\ Len(conversation) > 3

\* the Transport call failed (it raised) or its response has no choices
IsTransportFailure(response) == response.error # "none"

\* C15: a run of the loop ends with a non-zero exit code only on a Transport
\* failure: whatever else the Transport answers, the run does not fail.
C15_OnlyTransportFailuresFail ==
    (pc = "done" /\ LoopEntered /\ exit_code # 0)
        => /\ responses # <<>>
           /\ IsTransportFailure(responses[Len(responses)])


\* the request fails in the runs explored: its arguments do not parse, its
\* tool is not selected, or its handler reports a failure
LoopCallFails(req) ==
    \/ ~ArgsParse(req)
    \/ req.function.name \notin KeySet(selected_tools)
    \/ LoopOutcome(req.function.name) = "returns_error"

\* the messages sent at call i + 1 hold, after those sent at call i and the
\* assistant message, an error result for every failing request of batch i
ErrorsFedBack(before, batch, after) ==
    /\ Len(after) = Len(before) + 1 + Len(batch)
    /\ \A j \in 1..Len(batch) :
          LoopCallFails(batch[j]) => IsErrorResult(batch[j], after[Len(before) + 1 + j])

\* C16: a failing tool call does not end the loop: after a batch holding
\* failing calls, while iterations remain, the run is still in the loop and
\* has not exited, its next step is a Transport call, and the messages of
\* that call hold the error result of every failing call of the batch.
C16_ToolFailureIsNotFatal ==
    /\ [](\A i \in 2..Len(sent) :
             ErrorsFedBack(sent[i - 1].messages, responses[i - 1].message.tool_calls,
                           sent[i].messages))
    /\ []((responses # <<>> /\ IsToolCallResponse(responses[Len(responses)])
              /\ Len(responses) < max_calls)
            => /\ pc = "loop"
               /\ exit_code = NotExited
               /\ ErrorsFedBack(sent[Len(sent)].messages,
                                responses[Len(responses)].message.tool_calls,
                                current_messages))
    /\ [][pc = "loop" => /\ Len(sent') = Len(sent) + 1
                         /\ sent'[Len(sent')].messages = current_messages]_vars

\* a batch of a request with unparseable arguments and a request whose
\* handler failed was executed, and the Transport was called again
C16_Witness ==
    /\ Len(sent) >= 2
    /\ Len(responses[1].message.tool_calls) = 2
    /\ ~ArgsParse(responses[1].message.tool_calls[1])
    /\ responses[1].message.tool_calls[2].function.name = "write_file"
    /\ "write_file" \in KeySet(selected_tools)
    /\ \E k \in 1..Len(invoked) : invoked[k].outcome = "returns_error"

IsToolCallMessage(m) == m.role = "assistant" /\ "tool_calls" \in DOMAIN m

\* every assistant tool-call message of the list is followed at once by one
\* tool message per request, in request order, and no other tool message
\* is in the list
Complete(messages) ==
    \A p \in 1..Len(messages) :
        /\ IsToolCallMessage(messages[p]) =>
              LET requests == messages[p].tool_calls
                  n        == Len(requests)
              IN  /\ p + n <= Len(messages)
                  /\ \A j \in 1..n :
                        /\ messages[p + j].role = "tool"
                        /\ messages[p + j].tool_call_id = requests[j].id
                        /\ messages[p + j].name = requests[j].function.name
                  /\ p + n < Len(messages) => messages[p + n + 1].role # "tool"
        /\ messages[p].role = "tool" =>
              /\ p > 1
              /\ messages[p - 1].role = "tool" \/ IsToolCallMessage(messages[p - 1])

\* C17: the message list of every Transport call is complete: each
\* assistant tool-call message in it is followed at once by exactly one
\* tool message per request, in request order and with the request's id;
\* and when a call is made every earlier call has been followed by exactly
\* one executed batch, whose results are all there.
C17_ResultsCompleteAtEveryCall ==
    /\ \A i \in 1..Len(sent) : Complete(sent[i].messages)
    /\ pc = "loop" =>
          /\ batches = Len(sent)
          /\ Len(tool_results) = Len(tool_calls)
          /\ Complete(current_messages)

\* the second Transport call follows a batch of two requests
C17_Witness ==
    /\ Len(sent) >= 2
    /\ Len(responses[1].message.tool_calls) = 2
    /\ Len(sent[2].messages) = Len(sent[1].messages) + 3

IsPrefix(a, b) ==
    /\ Len(a) <= Len(b)
    /\ \A i \in 1..Len(a) : a[i] = b[i]

\* C18: the running list only grows at its end: the list of each Transport
\* call is a prefix of the list of the next call and of the running list,
\* no step changes or removes a message of the running list, and the
\* single-turn variant never changes the list its caller handed over.
C18_MessagesAppendOnly ==
    /\ [](\A i \in 1..Len(sent) :
             /\ i < Len(sent) => IsPrefix(sent[i].messages, sent[i + 1].messages)
             /\ IsPrefix(sent[i].messages, current_messages))
    /\ [][IsPrefix(current_messages, current_messages')]_vars
    /\ [][variant = "single" => conversation' = conversation]_vars

\* the single-turn variant has sent a longer list at its second call and
\* the caller's list is still the one first sent
C18_Witness ==
    /\ variant = "single"
    /\ Len(sent) = 2
    /\ Len(sent[2].messages) > Len(sent[1].messages)
    /\ conversation = sent[1].messages

\* number of messages the first n responses added to the running list
RECURSIVE TurnLen(_)
TurnLen(n) ==
    IF n = 0 THEN 0 ELSE TurnLen(n - 1) + 1 + Len(responses[n].message.tool_calls)

---------------------------------------------------------------------------
(* The two variants side by side: the single-turn command runs, then the   *)
(* chat command runs on the same options and messages, its Transport       *)
(* giving the answers the first run got, in the same order.                *)

\* how a run of the loop ended
Outcome ==
    CASE exit_code = 1 -> "failure"
      [] exit_code # 1 /\ stdout # <<>> -> "final answer"
      [] exit_code # 1 /\ stdout = <<>>
           /\ (\E k \in 1..Len(stderr) : stderr[k] = AnomalyReport) -> "anomaly"
      [] OTHER -> "exhaustion"

\* what is compared between the runs
Observed ==
    [ ran |-> TRUE, responses |-> responses, sent |-> sent, batches |-> batches,
      invoked |-> invoked, stdout |-> stdout, outcome |-> Outcome ]

InitPair ==
    /\ Init
    /\ variant = "single"

\* the single-turn command has ended after entering its loop; the chat
\* command is started with the same options and the same initial messages
StartChatRun ==
    /\ pc = "done"
    /\ variant = "single"
    /\ LoopEntered
    /\ ~first_run.ran
    /\ first_run' = Observed
    /\ variant' = "chat"
    /\ pc' = "command"
    /\ tools' = <<>>
    /\ selected_tools' = <<>>
    /\ select_error' = NoError
    /\ tool_schemas' = <<>>
    /\ schemas_returned' = <<>>
    /\ tool_calls' = <<>>
    /\ tool_results' = <<>>
    /\ exec_raised' = "no"
    /\ invoked' = <<>>
    /\ iteration' = 0
    /\ current_messages' = <<>>
    /\ conversation' = << UserMessage >>
    /\ saved' = conversation'
    /\ sent' = <<>>
    /\ responses' = <<>>
    /\ batches' = 0
    /\ stdout' = <<>>
    /\ stderr' = <<>>
    /\ exit_code' = NotExited
    /\ UNCHANGED << broken_modules, tool_spec, max_calls, schema_dict, stream >>
    /\ UNCHANGED store_vars

\* in the second run the client is there as in the first, and answer number
\* n of the Transport is answer number n of the first run, as long as the
\* first run got that many
Replays ==
    first_run.ran =>
        /\ LoopEntered'
        /\ (Len(responses') > Len(responses) /\ Len(responses') <= Len(first_run.responses))
              => responses'[Len(responses')] = first_run.responses[Len(responses')]

NextPair ==
    \/ ClientInitFails /\ Replays
    \/ SelectionFails /\ Replays
    \/ SelectionSucceeds /\ Replays
    \/ ExecuteWithTools_APIError /\ Replays
    \/ ExecuteWithTools_Exception /\ Replays
    \/ ExecuteWithTools_NoChoices /\ Replays
    \/ ExecuteWithTools_NoToolCalls /\ Replays
    \/ ExecuteWithTools_ToolCalls /\ Replays
    \/ ExecuteWithTools_Final /\ Replays
    \/ ExecuteChatWithTools_APIError /\ Replays
    \/ ExecuteChatWithTools_Exception /\ Replays
    \/ ExecuteChatWithTools_NoChoices /\ Replays
    \/ ExecuteChatWithTools_ToolCallsNone /\ Replays
    \/ ExecuteChatWithTools_ToolCalls /\ Replays
    \/ ExecuteChatWithTools_Final /\ Replays
    \/ StartChatRun

SpecPair == InitPair /\ [][NextPair]_vars

\* C20: on the same initial messages, selected tools, max_calls and Transport
\* answers the chat variant does what the single-turn variant did: the same
\* number of Transport calls with the same arguments, the same batches and
\* handler calls, the same answer on stdout and the same kind of outcome.
C20_VariantsAgree ==
    (first_run.ran /\ pc = "done")
        => /\ Len(sent) = Len(first_run.sent)
           /\ sent = first_run.sent
           /\ batches = first_run.batches
           /\ invoked = first_run.invoked
           /\ stdout = first_run.stdout
           /\ Outcome = first_run.outcome


---------------------------------------------------------------------------
(* The final answer *)

\* the text is valid JSON
Parses(content) == content.kind = "json"

\* the same data laid out by json.dumps(..., indent=2)
PrettyPrinted(content) == [kind |-> "json", val |-> content.val, layout |-> "indent=2"]

\* what the claim says is emitted for a final content
ExpectedOutput(content) ==
    IF schema_dict /\ Parses(content) THEN PrettyPrinted(content) ELSE content

\* the step just taken received a final response
FinalStep ==
    /\ Len(responses') = Len(responses) + 1
    /\ IsFinalResponse(responses'[Len(responses')])

C21_WitnessRaw ==
    /\ pc = "done"
    /\ schema_dict
    /\ exit_code = 0
    /\ responses # <<>>
    /\ IsFinalResponse(responses[Len(responses)])
    /\ responses[Len(responses)].message.content.kind = "text"
    /\ responses[Len(responses)].message.content # EmptyText
    /\ stdout = << responses[Len(responses)].message.content >>


---------------------------------------------------------------------------
(* Loading the built-in tools, checked under SpecRegistry *)

\* the built-in `name` is registered and a selection of it alone succeeds
Selectable(name) ==
    /\ name \in KeySet(tools)
    /\ ~select_tools(tools, << name >>).raised
    /\ KeySet(select_tools(tools, << name >>).value) = {name}

\* C22: the registry is constructed whatever module failed to load; a
\* failure is reported as a warning; and every built-in whose module was
\* imported successfully is registered and selectable.
C22_LoadedBuiltinsRegistered ==
    /\ (broken_modules # {} => load_warnings(broken_modules) # <<>>)
    /\ \A i \in 1..Len(BuiltinNames) :
          Imported(ModuleOf(BuiltinNames[i]), broken_modules) => Selectable(BuiltinNames[i])


---------------------------------------------------------------------------
(* list_tools, checked under SpecList *)

\* `name` is listed with description `desc` in group `mine` and not in `other`
ListedOnlyIn(mine, other, name, desc) ==
    /\ name \in KeySet(mine)
    /\ GetValue(mine, name) = desc
    /\ Cardinality({ i \in 1..Len(mine) : mine[i].key = name }) = 1
    /\ name \notin KeySet(other)

\* C23: list_tools returns every registered tool, with its description, in
\* exactly one of the groups `builtin` and `user`: in `builtin` if and only
\* if its provenance flag is set; it lists no name that is not registered;
\* and the call leaves the registry as it was.
C23_ListToolsPartitions ==
    /\ [](returned.op = "list_tools" =>
            /\ \A i \in 1..Len(tools) :
                  LET desc == tools[i].value.tool_schema.function.description
                  IN  IF tools[i].value.builtin
                      THEN ListedOnlyIn(returned.value.builtin, returned.value.user, tools[i].key, desc)
                      ELSE ListedOnlyIn(returned.value.user, returned.value.builtin, tools[i].key, desc)
            /\ KeySet(returned.value.builtin) \cup KeySet(returned.value.user) \subseteq KeySet(tools))
    /\ [][returned'.op = "list_tools" => tools' = tools]_vars

\* a registry holding built-in tools and a caller's tool has been listed, and
\* both groups are non-empty
C23_Witness ==
    /\ returned.op = "list_tools"
    /\ returned.value.builtin # <<>>
    /\ returned.value.user # <<>>
    /\ "calculate" \in KeySet(returned.value.user)


---------------------------------------------------------------------------
(* Properties of the conversation store, checked under SpecStore *)

\* the step just taken was the operation `op`
StoreStep(op) ==
    /\ returned'.op = op
    /\ ops' = ops + 1

\* original_name-counter
Numbered(original_name, counter) == original_name \o << "-" >> \o str(counter)

\* no file stands in the way of `name`
Free(fs, name) == ~exists(fs, get_conversation_path(name))

\* the first free name among name-2, name-3, ...
FirstFreeNumbered(fs, name) ==
    LET k == CHOOSE c \in 2..(Cardinality(DOMAIN fs) + 2) :
                 /\ Free(fs, Numbered(name, c))
                 /\ \A d \in 2..(c - 1) : ~Free(fs, Numbered(name, d))
    IN  Numbered(name, k)

\* every file of fs is in after, holding what it held
Preserved(fs, after) ==
    \A f \in DOMAIN fs : f \in DOMAIN after /\ after[f] = fs[f]

\* C24: create_conversation writes one new file and leaves every file that
\* was there as it was; it returns the requested name if that is free, and
\* otherwise the first free name among name-2, name-3, ..., and the new
\* conversation is stored under the name returned.
C24_CreateNeverOverwrites ==
    [][StoreStep("create_conversation") =>
          /\ Preserved(files, files')
          /\ returned'.raised = "no"
          /\ returned'.value = (IF Free(files, returned'.name)
                                THEN returned'.name
                                ELSE FirstFreeNumbered(files, returned'.name))
          /\ Free(files, returned'.value)
          /\ DOMAIN files' = DOMAIN files \cup { get_conversation_path(returned'.value) }
          /\ load_conversation(files', returned'.value).raised = "no"
          /\ load_conversation(files', returned'.value).value.name = returned'.value]_vars

\* the name "a" was asked for while "a" and "a-2" were taken, and "a-3" was
\* returned, with three conversations stored
C24_Witness ==
    /\ returned.op = "create_conversation"
    /\ returned.name = << "a" >>
    /\ returned.value = << "a", "-", "3" >>
    /\ Cardinality(DOMAIN files) = 3


\* the conversation `name` stands for is the one the active session stands
\* for: both lead to the same file
IsActiveConversation(file, name) ==
    /\ get_active_session(file) # None
    /\ get_conversation_path(get_active_session(file).text) = get_conversation_path(name)

\* C25: delete_conversation of a name without a conversation fails with
\* not-found and changes nothing; otherwise it removes the conversation, and
\* it leaves no active session if the conversation removed was the active
\* one, and the active session as it was if it was another one.
C25_DeleteClearsOwnSession ==
    [][StoreStep("delete_conversation") =>
          IF ~exists(files, get_conversation_path(returned'.name))
          THEN /\ returned'.raised = "FileNotFoundError"
               /\ files' = files
               /\ active_session_file' = active_session_file
          ELSE /\ returned'.raised = "no"
               /\ files' = unlink(files, get_conversation_path(returned'.name))
               /\ IF IsActiveConversation(active_session_file, returned'.name)
                  THEN get_active_session(active_session_file') = None
                  ELSE active_session_file' = active_session_file]_vars


\* C26: add_message on a name without a conversation fails with not-found
\* and creates nothing; otherwise the stored messages of the conversation
\* become the ones stored before followed by the one new message, and
\* nothing else in the store changes.
C26_AddMessageAppends ==
    [][StoreStep("add_message") =>
          LET path == get_conversation_path(returned'.name)
          IN  IF ~exists(files, path)
              THEN /\ returned'.raised = "FileNotFoundError"
                   /\ files' = files
              ELSE /\ returned'.raised = "no"
                   /\ DOMAIN files' = DOMAIN files
                   /\ files'[path].messages = Append(files[path].messages, returned'.value)
                   /\ Len(files'[path].messages) = Len(files[path].messages) + 1
                   /\ \A i \in 1..Len(files[path].messages) :
                         files'[path].messages[i] = files[path].messages[i]
                   /\ files'[path].name = files[path].name
                   /\ \A f \in DOMAIN files \ {path} : files'[f] = files[f]]_vars

\* a conversation created with a system prompt holds its two initial
\* messages followed by two added ones, in the order of the calls
C26_Witness ==
    /\ returned.op = "add_message"
    /\ returned.raised = "no"
    /\ exists(files, << "a" >>)
    /\ files[<< "a" >>].messages =
          << [role |-> "system", content |-> << "b" >>], FirstMessage,
             [role |-> "assistant", content |-> << "a", "b" >>],
             [role |-> "assistant", content |-> << "b" >>] >>


\* C30: with set_active_session called only for conversations that exist,
\* whenever get_active_session returns a name, load_conversation of that
\* name succeeds, whatever creates, deletes and clears came before.
C30_ActiveSessionNeverDangles ==
    get_active_session(active_session_file) # None
        => load_conversation(files, get_active_session(active_session_file).text).raised = "no"


---------------------------------------------------------------------------
(* How a run of the loop is reported, checked under Spec *)

\* the limit warning has been echoed
ExhaustionReported == \E k \in 1..Len(stderr) : stderr[k] = LimitWarning(max_calls)

\* the run has ended on a tool_calls response without tool calls
EndedByAnomaly ==
    /\ pc = "done"
    /\ responses # <<>>
    /\ IsAnomaly(responses[Len(responses)])

\* C27: the limit warning is echoed only in a run that made exactly
\* max_calls Transport calls, each answered with a tool-call response; and a
\* run ended by a tool_calls response without tool calls echoes the anomaly
\* report and neither the limit warning nor a failure, and does not exit 1.
C27_ExhaustionReportedOnlyWhenExhausted ==
    /\ ExhaustionReported =>
          /\ Len(sent) = max_calls
          /\ OnlyToolCallResponses(Len(responses))
    /\ EndedByAnomaly =>
          /\ \E k \in 1..Len(stderr) : stderr[k] = AnomalyReport
          /\ ~ExhaustionReported
          /\ exit_code # 1


\* the request got as far as the handler: its arguments parsed and its tool
\* is among the selected ones
ReachesHandler(tool_call) ==
    /\ json_loads(tool_call.function.arguments).raised = "no"
    /\ LookupTool(selected_tools, tool_call.function.name).found

\* the requests of the batch last executed that got as far as the handler
LastBatchCalls == SelectSeq(tool_calls, ReachesHandler)

\* C28: when the range of the loop is used up with max_calls >= 1, the
\* loop has executed max_calls batches, as many as Transport calls; the last
\* batch executed is the one the last response asked for, its handlers have
\* been called, its results are at the end of the running list (and, in the
\* chat variant, saved) and no Transport call carried them.
C28_LastBatchExecuted ==
    (Exhausted /\ max_calls >= 1) =>
        /\ batches = max_calls
        /\ Len(sent) = max_calls
        /\ tool_calls = responses[Len(responses)].message.tool_calls
        /\ Len(tool_results) = Len(tool_calls)
        /\ Len(invoked) >= Len(LastBatchCalls)
        /\ \A j \in 1..Len(LastBatchCalls) :
              LET call == invoked[Len(invoked) - Len(LastBatchCalls) + j]
              IN  /\ call.id = LastBatchCalls[j].id
                  /\ call.name = LastBatchCalls[j].function.name
        /\ Len(current_messages) = Len(sent[Len(sent)].messages) + 1 + Len(tool_results)
        /\ current_messages[Len(sent[Len(sent)].messages) + 1] = responses[Len(responses)].message
        /\ \A j \in 1..Len(tool_results) :
              current_messages[Len(sent[Len(sent)].messages) + 1 + j] = tool_results[j]
        /\ variant = "chat" =>
              /\ saved = current_messages
              /\ conversation = current_messages

\* the chat variant has used up a limit of two calls, and the batch of the
\* last response, two requests, has run its handlers and is saved
C28_Witness ==
    /\ Exhausted
    /\ variant = "chat"
    /\ max_calls = 2
    /\ Len(tool_calls) = 2
    /\ Len(LastBatchCalls) >= 1
    /\ invoked # <<>>
    /\ invoked[Len(invoked)].ran
    /\ saved[Len(saved)] = tool_results[2]


\* the chat run has ended by a failed Transport call or by using up its
\* range, after at least one completed tool-call iteration
EndedAfterToolCalls ==
    /\ variant = "chat"
    /\ pc = "done"
    /\ iteration >= 1
    /\ \/ Exhausted
       \/ (Len(responses) = iteration + 1 /\ IsTransportFailure(responses[Len(responses)]))

\* C29: a chat run that ends by a Transport failure or by exhaustion after
\* k >= 1 completed tool-call iterations leaves persisted, after the
\* initial messages, the assistant tool-call message and every tool result
\* of each of the k iterations; the persisted conversation ends with a
\* tool-role message and holds no final assistant message.
C29_NoRollback ==
    EndedAfterToolCalls =>
        /\ Len(saved) = 1 + TurnLen(iteration)
        /\ saved[1] = UserMessage
        /\ \A i \in 1..iteration :
              LET p     == 1 + TurnLen(i - 1) + 1
                  batch == responses[i].message.tool_calls
              IN  /\ saved[p] = responses[i].message
                  /\ \A j \in 1..Len(batch) :
                        /\ saved[p + j].role = "tool"
                        /\ saved[p + j].tool_call_id = batch[j].id
        /\ saved[Len(saved)].role = "tool"
        /\ \A i \in 2..Len(saved) : IsToolTurnMessage(saved[i])

==========================================================================
